---- MODULE Spec2Model ----
(***************************************************************************)
(* Model of the analytics exporter: the aggregation of stored events into  *)
(* an AnalyticsStats snapshot (internal/prometheus/prometheus_helper.go)   *)
(* and the Prometheus collector that publishes it                          *)
(* (internal/prometheus, AnalyticsCollector).                              *)
(*                                                                         *)
(* Representation choices                                                  *)
(*  - Time is counted in minutes; VisitDuration is 30, the current-visitor *)
(*    window is 5.                                                         *)
(*  - A link (URL or referrer) is a sequence of tokens.  The tokens "/"    *)
(*    and "." stand for these characters, every other token is a run of    *)
(*    characters that holds neither; the string of a link is the           *)
(*    concatenation of its tokens (Join).  The tokens "http:" and "https:" *)
(*    followed by "/" "/" spell a scheme prefix.                           *)
(*  - A float64 quotient is kept as the pair of its integer operands       *)
(*    (num, den); den = 0 gives NaN (num = 0) or +Inf (num > 0).           *)
(***************************************************************************)
EXTENDS Integers, Sequences, FiniteSets, TLC

(***************************************************************************)
(* Program constants                                                       *)
(***************************************************************************)
VisitDuration == 30

CurrentWindow == 5

(***************************************************************************)
(* Bounds of the model                                                     *)
(***************************************************************************)
MaxEvents == 3

MaxStore == 2

NumScrapes == 2

NumRequests == 2

MaxSalts == 2

(***************************************************************************)
(* Generic helpers: Go maps with int values, string concatenation          *)
(***************************************************************************)
EmptyMap == [k \in {} |-> 0]

\* m[k]++ on a Go map[string]int
Inc(m, k) ==
    IF k \in DOMAIN m THEN [m EXCEPT ![k] = @ + 1] ELSE m @@ (k :> 1)

\* m[k] on a Go map[string]int: the zero value when the key is absent
Get(m, k) == IF k \in DOMAIN m THEN m[k] ELSE 0

RECURSIVE SumOver(_, _)
SumOver(m, keys) ==
    IF keys = {} THEN 0
    ELSE LET k == CHOOSE x \in keys : TRUE
         IN  m[k] + SumOver(m, keys \ {k})

SumMap(m) == SumOver(m, DOMAIN m)

RECURSIVE Join(_)
Join(tokens) == IF tokens = <<>> THEN "" ELSE Head(tokens) \o Join(Tail(tokens))

(***************************************************************************)
(* extractDomainAndPath: an unanchored regular expression made of an       *)
(* optional scheme (http or https, colon, two slashes), a non-empty run    *)
(* without "/" (the domain) and the rest of the line (the path).           *)
(* The leftmost match starts at the first character that                   *)
(* is not "/": there the scheme is consumed when a non-"/" character       *)
(* follows it, the domain is the longest run without "/", the path is the  *)
(* rest.  A link without such a character has no match.                    *)
(***************************************************************************)
FirstNonSlash(link) ==
    IF \E i \in 1..Len(link) : link[i] # "/"
    THEN CHOOSE i \in 1..Len(link) :
            link[i] # "/" /\ \A j \in 1..(i - 1) : link[j] = "/"
    ELSE 0

HasScheme(link, i) ==
    /\ i + 3 <= Len(link)
    /\ link[i] \in {"http:", "https:"}
    /\ link[i + 1] = "/"
    /\ link[i + 2] = "/"
    /\ link[i + 3] # "/"

DomainStart(link) ==
    LET i == FirstNonSlash(link)
    IN  IF HasScheme(link, i) THEN i + 3 ELSE i

DomainEnd(link) ==
    LET s == DomainStart(link)
    IN  CHOOSE e \in s..Len(link) :
            /\ \A j \in s..e : link[j] # "/"
            /\ (e = Len(link) \/ link[e + 1] = "/")

\* err # nil of extractDomainAndPath
ExtractFails(link) == FirstNonSlash(link) = 0

\* the domain and the path (as tokens) returned for a link; both are empty
\* when the link has no match
extractDomainAndPath(link) ==
    IF ExtractFails(link) THEN [domain |-> <<>>, path |-> <<>>]
    ELSE LET s == DomainStart(link)
             e == DomainEnd(link)
             rest == SubSeq(link, e + 1, Len(link))
         IN  [domain |-> SubSeq(link, s, e),
              path   |-> IF rest = <<>> THEN <<"/">> ELSE rest]

\* regexp.MustCompile(`\.html$`).ReplaceAllString(urlPath, "")
TrimHtml(path) ==
    LET n == Len(path)
    IN  IF n >= 2 /\ path[n - 1] = "." /\ path[n] = "html"
        THEN SubSeq(path, 1, n - 2)
        ELSE path

\* strings.Split(domain, "."): the labels between the dots
RECURSIVE SplitDots(_, _)
SplitDots(tokens, cur) ==
    IF tokens = <<>> THEN <<cur>>
    ELSE IF Head(tokens) = "." THEN <<cur>> \o SplitDots(Tail(tokens), "")
    ELSE SplitDots(Tail(tokens), cur \o Head(tokens))

\* the source label of a referrer domain: its last two labels, or the
\* whole domain when it has no dot
ReferrerLabel(domain) ==
    LET labels == SplitDots(domain, "")
        n == Len(labels)
    IN  IF n > 1 THEN labels[n - 1] \o "." \o labels[n]
        ELSE Join(domain)

(***************************************************************************)
(* Events (api Event message).  The ID, Domain, Meta and Props fields are  *)
(* not read by the aggregation and are left out.                           *)
(***************************************************************************)
\* The Device oneof: the set field (tag) and its bool value
DeviceUnset == [tag |-> "", val |-> FALSE]

DeviceDesktop == [tag |-> "Desktop", val |-> TRUE]

DeviceMobile == [tag |-> "Mobile", val |-> TRUE]

GetDesktop(d) == d.tag = "Desktop" /\ d.val

GetMobile(d) == d.tag = "Mobile" /\ d.val

GetTablet(d) == d.tag = "Tablet" /\ d.val

GetBot(d) == d.tag = "Bot" /\ d.val

\* A visitor of the ingestion side: the fingerprint and the user-agent
\* classification stored with each of its events
Visitors ==
    { [HashedVisit |-> "F1", Browser |-> "Firefox", OS |-> "Linux",
       Device |-> DeviceDesktop],
      [HashedVisit |-> "F2", Browser |-> "", OS |-> "",
       Device |-> DeviceUnset] }

Fingerprints == {v.HashedVisit : v \in Visitors}

Times == {5, 35, 40, 75}

Types == {"pageview", "click"}

UrlRoot == <<"https:", "/", "/", "example", ".", "com", "/">>

UrlPage == <<"https:", "/", "/", "example", ".", "com", "/", "page", ".", "html">>

UrlFoo == <<"example", ".", "com", "/", "foo">>

UrlBar == <<"https:", "/", "/", "example", ".", "com", "/", "bar">>

UrlBare == <<"example", ".", "com">>

UrlEmpty == <<>>

UrlSlash == <<"/">>

RefSame == <<"https:", "/", "/", "example", ".", "com", "/", "foo">>

RefNews == <<"https:", "/", "/", "news", ".", "ycombinator", ".", "com", "/", "item">>

RefLocal == <<"localhost">>

Event(type, url, referrer, v, ts) ==
    [Type |-> type, URL |-> url, Referrer |-> referrer,
     Browser |-> v.Browser, OS |-> v.OS, Device |-> v.Device,
     HashedVisit |-> v.HashedVisit, Timestamp |-> ts]

\* events of both visitors over time, on two pages
SessionEvents ==
    { Event("pageview", u, <<>>, v, ts) :
        u \in {UrlRoot, UrlPage}, v \in Visitors, ts \in Times }
    \cup { Event("click", UrlRoot, <<>>, v, ts) : v \in Visitors, ts \in {40} }

\* the URL and referrer shapes, well formed and malformed
Hits ==
    { <<UrlRoot, <<>>>>, <<UrlPage, RefSame>>, <<UrlFoo, RefNews>>,
      <<UrlBare, RefLocal>>, <<UrlEmpty, <<>>>>, <<UrlRoot, UrlSlash>>,
      <<UrlFoo, RefSame>> }

HitEvents ==
    LET v == CHOOSE w \in Visitors : w.HashedVisit = "F1"
    IN  { Event("pageview", h[1], h[2], v, 5) : h \in Hits }

ListsOf(S, n) == UNION { [1..k -> S] : k \in 0..n }

\* three page views of one visitor: /, /foo five minutes later and /bar
\* forty minutes after the first
ScenarioEvents ==
    LET v == CHOOSE w \in Visitors : w.HashedVisit = "F1"
    IN  { Event("pageview", UrlRoot, <<>>, v, 35),
          Event("pageview", UrlFoo, <<>>, v, 40),
          Event("pageview", UrlBar, <<>>, v, 75) }

\* the orders in which List may return the events of S
OrdersOf(S) ==
    { l \in [1..Cardinality(S) -> S] : \A i, j \in DOMAIN l : l[i] = l[j] => i = j }

ScenarioLists == OrdersOf(ScenarioEvents)

\* the event lists the store may hold when a snapshot is taken
StoreLists ==
    ListsOf(SessionEvents, MaxEvents) \cup ListsOf(HitEvents, MaxEvents)
        \cup ScenarioLists

\* the events written by the ingestion side while scrapes run
InsertEvents ==
    LET v == CHOOSE w \in Visitors : w.HashedVisit = "F1"
        u == CHOOSE w \in Visitors : w.HashedVisit = "F2"
    IN  { Event("pageview", UrlRoot, <<>>, v, 5),
          Event("pageview", UrlPage, RefSame, u, 40),
          Event("click", UrlPage, RefNews, v, 40),
          Event("pageview", UrlEmpty, <<>>, v, 35) }

\* the wall-clock instants at which a snapshot is taken
\* the events written while the registry describes the collector: the page
\* views of the first visitor
RegistryEvents ==
    { e \in InsertEvents : e.HashedVisit = "F1" /\ e.Type = "pageview" }

Nows == {33, 40}

Scrapes == 1..NumScrapes

(***************************************************************************)
(* GetAnalyticsStats, part 1: sorting and the per-event fold               *)
(***************************************************************************)
\* sort.Slice with less = timestamp Before: for the slice lengths of this
\* model (at most 12) it is an insertion sort, which moves an element left
\* only past elements with a strictly later timestamp
RECURSIVE InsertSorted(_, _)
InsertSorted(sorted, e) ==
    IF sorted = <<>> THEN <<e>>
    ELSE LET n == Len(sorted)
         IN  IF e.Timestamp < sorted[n].Timestamp
             THEN Append(InsertSorted(SubSeq(sorted, 1, n - 1), e), sorted[n])
             ELSE Append(sorted, e)

\* variant: the events are folded in the order List returned them
SortEventsKeepsOrder(events) == events

RECURSIVE SortEvents(_)
SortEvents(events) ==
    IF events = <<>> THEN <<>>
    ELSE LET n == Len(events)
         IN  InsertSorted(SortEvents(SubSeq(events, 1, n - 1)), events[n])

\* the locals of GetAnalyticsStats before the loop
EmptyAcc ==
    [pageViewsCount |-> 0, pages |-> EmptyMap, sources |-> EmptyMap,
     devices |-> EmptyMap, oss |-> EmptyMap, browsers |-> EmptyMap,
     visitsMap |-> EmptyMap]

\* the page key of an event: the path of its URL without a trailing .html
UrlPath(e) == Join(TrimHtml(extractDomainAndPath(e.URL).path))

NewVisit(urlPath, ts) ==
    [EntryPage |-> urlPath, ExitPage |-> urlPath, PagesVisited |-> 1,
     LastPageViewTimestamp |-> ts]

\* variant: a gap of exactly VisitDuration already splits
SplitsVisitAtTimeout(lastVisit, e) ==
    e.Timestamp - lastVisit.LastPageViewTimestamp >= VisitDuration

\* true when the event opens a new visit of a fingerprint that has visits
SplitsVisit(lastVisit, e) ==
    e.Timestamp - lastVisit.LastPageViewTimestamp > VisitDuration

\* variant: an event that opens no visit is added to the first visit
FoldVisitExtendsFirst(visitsMap, e) ==
    LET fp == e.HashedVisit
        urlPath == UrlPath(e)
    IN  IF fp \notin DOMAIN visitsMap
        THEN visitsMap @@ (fp :> <<NewVisit(urlPath, e.Timestamp)>>)
        ELSE LET v == visitsMap[fp]
                 lastVisit == v[Len(v)]
             IN  IF SplitsVisit(lastVisit, e)
                 THEN [visitsMap EXCEPT
                         ![fp] = Append(v, NewVisit(urlPath, e.Timestamp))]
                 ELSE [visitsMap EXCEPT
                         ![fp] = [v EXCEPT ![1] =
                                   [EntryPage |-> v[1].EntryPage,
                                    ExitPage |-> urlPath,
                                    PagesVisited |-> v[1].PagesVisited + 1,
                                    LastPageViewTimestamp |-> e.Timestamp]]]

\* visitsMap after the event
FoldVisit(visitsMap, e) ==
    LET h == e.HashedVisit
        urlPath == UrlPath(e)
    IN  IF h \notin DOMAIN visitsMap
        THEN visitsMap @@ (h :> <<NewVisit(urlPath, e.Timestamp)>>)
        ELSE LET v == visitsMap[h]
                 lastVisit == v[Len(v)]
             IN  IF SplitsVisit(lastVisit, e)
                 THEN [visitsMap EXCEPT
                         ![h] = Append(v, NewVisit(urlPath, e.Timestamp))]
                 ELSE [visitsMap EXCEPT
                         ![h] = [v EXCEPT ![Len(v)] =
                                   [EntryPage |-> lastVisit.EntryPage,
                                    ExitPage |-> urlPath,
                                    PagesVisited |-> lastVisit.PagesVisited + 1,
                                    LastPageViewTimestamp |-> e.Timestamp]]]

\* variant: a referrer of the site itself is counted as a source
FoldSourceCountsOwnSite(sources, e) ==
    IF e.Referrer = <<>> THEN Inc(sources, "Direct/None")
    ELSE Inc(sources, ReferrerLabel(extractDomainAndPath(e.Referrer).domain))

\* sources after the event
FoldSource(sources, e) ==
    IF e.Referrer = <<>> THEN Inc(sources, "Direct/None")
    ELSE LET fullUrlDomain == Join(extractDomainAndPath(e.URL).domain)
             ref == extractDomainAndPath(e.Referrer).domain
             fullReferrerDomain == Join(ref)
         IN  IF fullUrlDomain # fullReferrerDomain
             THEN Inc(sources, ReferrerLabel(ref))
             ELSE sources

DeviceBucket(d) ==
    IF GetDesktop(d) THEN "Desktop"
    ELSE IF GetMobile(d) THEN "Mobile"
    ELSE IF GetTablet(d) THEN "Tablet"
    ELSE IF GetBot(d) THEN "Bot"
    ELSE "Unknown"

OrUnknown(str) == IF str # "" THEN str ELSE "Unknown"

\* variant: the error of the referrer is dropped
EventFailsOnUrlOnly(e) == ExtractFails(e.URL)

\* the loop body returns an error for this event
EventFails(e) ==
    \/ ExtractFails(e.URL)
    \/ (e.Referrer # <<>> /\ ExtractFails(e.Referrer))

PageViewIncrement(e) == IF e.Type = "pageview" THEN 1 ELSE 0

\* one iteration of the loop over sortedEvents, for an event that does not fail
ProcessEvent(acc, e) ==
    [pageViewsCount |-> acc.pageViewsCount + PageViewIncrement(e),
     pages     |-> Inc(acc.pages, UrlPath(e)),
     sources   |-> FoldSource(acc.sources, e),
     devices   |-> Inc(acc.devices, DeviceBucket(e.Device)),
     oss       |-> Inc(acc.oss, OrUnknown(e.OS)),
     browsers  |-> Inc(acc.browsers, OrUnknown(e.Browser)),
     visitsMap |-> FoldVisit(acc.visitsMap, e)]

(***************************************************************************)
(* GetAnalyticsStats, part 2: the pass over the visits and the result      *)
(***************************************************************************)
\* all visits of visitsMap, as <<fingerprint, index>> pairs
VisitRefs(visitsMap) ==
    UNION { { <<h, i>> : i \in 1..Len(visitsMap[h]) } : h \in DOMAIN visitsMap }

VisitAt(visitsMap, r) == visitsMap[r[1]][r[2]]

RECURSIVE CountPagesOnce(_, _, _)
\* variant: a page is marked, not counted, by each visit
CountPagesOnce(visitsMap, refs, field) ==
    IF refs = {} THEN EmptyMap
    ELSE LET r == CHOOSE x \in refs : TRUE
             m == CountPagesOnce(visitsMap, refs \ {r}, field)
             k == VisitAt(visitsMap, r)[field]
         IN  IF k \in DOMAIN m THEN m ELSE m @@ (k :> 1)

RECURSIVE CountPages(_, _, _)
\* entryPages / exitPages: one increment per visit, keyed by the given field
CountPages(visitsMap, refs, field) ==
    IF refs = {} THEN EmptyMap
    ELSE LET r == CHOOSE x \in refs : TRUE
         IN  Inc(CountPages(visitsMap, refs \ {r}, field),
                 VisitAt(visitsMap, r)[field])

Abs(x) == IF x < 0 THEN 0 - x ELSE x

\* variant: a visit whose last page view is exactly five minutes old counts
IsCurrentInclusive(visit, now) ==
    Abs(now - visit.LastPageViewTimestamp) <= CurrentWindow

\* variant: a visit counts for as long as it could still be extended
IsCurrentWithinVisitDuration(visit, now) ==
    Abs(now - visit.LastPageViewTimestamp) < VisitDuration

IsCurrent(visit, now) == Abs(now - visit.LastPageViewTimestamp) < CurrentWindow

\* variant: the unique visitors are counted per visit
BuildStatsVisitorsPerVisit(acc, now) ==
    LET refs == VisitRefs(acc.visitsMap)
        onePageVisits ==
            Cardinality({r \in refs : VisitAt(acc.visitsMap, r).PagesVisited = 1})
        currentVisitors ==
            Cardinality({r \in refs : IsCurrent(VisitAt(acc.visitsMap, r), now)})
    IN  [UniqueVisitors  |-> Cardinality(refs),
         TotalVisits     |-> Cardinality(refs),
         TotalPageViews  |-> acc.pageViewsCount,
         CurrentVisitors |-> currentVisitors,
         BounceRate      |-> [num |-> onePageVisits, den |-> acc.pageViewsCount],
         PagesRate       |-> acc.pages,
         SourcesRate     |-> acc.sources,
         DevicesRate     |-> acc.devices,
         OSsRate         |-> acc.oss,
         BrowsersRate    |-> acc.browsers,
         EntryPagesRate  |-> CountPages(acc.visitsMap, refs, "EntryPage"),
         ExitPagesRate   |-> CountPages(acc.visitsMap, refs, "ExitPage")]

\* the AnalyticsStats built after the loop
BuildStats(acc, now) ==
    LET refs == VisitRefs(acc.visitsMap)
        onePageVisits ==
            Cardinality({r \in refs : VisitAt(acc.visitsMap, r).PagesVisited = 1})
        currentVisitors ==
            Cardinality({r \in refs : IsCurrent(VisitAt(acc.visitsMap, r), now)})
    IN  [UniqueVisitors  |-> Cardinality(DOMAIN acc.visitsMap),
         TotalVisits     |-> Cardinality(refs),
         TotalPageViews  |-> acc.pageViewsCount,
         CurrentVisitors |-> currentVisitors,
         BounceRate      |-> [num |-> onePageVisits, den |-> acc.pageViewsCount],
         PagesRate       |-> acc.pages,
         SourcesRate     |-> acc.sources,
         DevicesRate     |-> acc.devices,
         OSsRate         |-> acc.oss,
         BrowsersRate    |-> acc.browsers,
         EntryPagesRate  |-> CountPages(acc.visitsMap, refs, "EntryPage"),
         ExitPagesRate   |-> CountPages(acc.visitsMap, refs, "ExitPage")]

\* the loop of GetAnalyticsStats over a list none of whose events fails
RECURSIVE FoldEvents(_, _)
FoldEvents(acc, events) ==
    IF events = <<>> THEN acc
    ELSE FoldEvents(ProcessEvent(acc, Head(events)), Tail(events))

\* the stats GetAnalyticsStats returns at time now when List returns events
GetAnalyticsStats(events, now) ==
    BuildStats(FoldEvents(EmptyAcc, SortEvents(events)), now)

\* float64 classification of a quotient num / den of non-negative integers
IsNaN(q) == q.den = 0 /\ q.num = 0

IsInf(q) == q.den = 0 /\ q.num # 0

IsFinite(q) == q.den # 0

\* 0 <= num / den <= 1 for a finite quotient
InUnitInterval(q) == q.den > 0 /\ 0 <= q.num /\ q.num <= q.den

(***************************************************************************)
(* AnalyticsCollector: the metrics and the samples of Collect              *)
(***************************************************************************)
\* the keys of c.metrics in the order Collect emits them
MetricKeys ==
    << "unique_visitors_total", "visits_total", "total_page_views",
       "current_visitors", "bounce_rate", "page_rate", "source_rate",
       "device_rate", "os_rate", "browser_rate", "entry_pages_rate",
       "exit_pages_rate" >>

NumSimple == 5

NumMetrics == Len(MetricKeys)

\* float64(n) of an integer
Float(n) == [num |-> n, den |-> 1]

\* the value of the p-th simple metric
SimpleValue(st, p) ==
    CASE p = 1 -> Float(st.UniqueVisitors)
      [] p = 2 -> Float(st.TotalVisits)
      [] p = 3 -> Float(st.TotalPageViews)
      [] p = 4 -> Float(st.CurrentVisitors)
      [] p = 5 -> st.BounceRate

\* variant: the device_rate loop ranges over the OS map
RateMapDevicesFromOSs(st, p) ==
    CASE p = 6  -> st.PagesRate
      [] p = 7  -> st.SourcesRate
      [] p = 8  -> st.OSsRate
      [] p = 9  -> st.OSsRate
      [] p = 10 -> st.BrowsersRate
      [] p = 11 -> st.EntryPagesRate
      [] p = 12 -> st.ExitPagesRate

\* the map ranged over for the p-th metric
RateMap(st, p) ==
    CASE p = 6  -> st.PagesRate
      [] p = 7  -> st.SourcesRate
      [] p = 8  -> st.DevicesRate
      [] p = 9  -> st.OSsRate
      [] p = 10 -> st.BrowsersRate
      [] p = 11 -> st.EntryPagesRate
      [] p = 12 -> st.ExitPagesRate

\* the next metric from p on that has a sample to emit; NumMetrics + 1
\* when Collect has reached its end
RECURSIVE PhaseFrom(_, _)
PhaseFrom(st, p) ==
    IF p > NumMetrics THEN NumMetrics + 1
    ELSE IF p <= NumSimple THEN p
    ELSE IF DOMAIN RateMap(st, p) # {} THEN p
    ELSE PhaseFrom(st, p + 1)

\* the keys still to range over when Collect arrives at metric p
KeysAt(st, p) ==
    IF p > NumSimple /\ p <= NumMetrics THEN DOMAIN RateMap(st, p) ELSE {}

Sample(t, p, label, value) ==
    [scrape |-> t, metric |-> MetricKeys[p], label |-> label, value |-> value]

(***************************************************************************)
(* State                                                                   *)
(***************************************************************************)
VARIABLES
    store,         \* the events of the domain, in the order List returns them
    mutex,         \* c.mutex: 0 when free, else the scrape holding it
    pc,            \* the position of each Collect call
    sortedEvents,  \* per call: the sorted slice of GetAnalyticsStats
    idx,           \* per call: the index of the next event of the loop
    acc,           \* per call: the counters and visitsMap of the loop
    stats,         \* per call: the AnalyticsStats returned
    phase,         \* per call: the metric Collect is emitting
    remaining,     \* per call: keys of the current map not yet emitted
    emitted,       \* the samples sent by the Collect calls that have not
                   \* returned yet, in the order of the sends
    exited,        \* the process has ended in logger.Fatal
    database,      \* c.database: "memdb", or "nil" when not configured
    metrics,       \* c.metrics: the descriptor of each metric key
    listRet,       \* per call: what db.List returned ("none": not called)
    err,           \* per call: the error GetAnalyticsStats returned
    nowAt,         \* per call: the wall-clock time of the pass over the visits
    described,     \* the descriptors sent by the last Describe call
    toDescribe,    \* the keys of c.metrics the running Describe call has
                   \* still to send
    DailySalt,     \* analytics.DailySalt: 0 for nil, else the buffer it refers
                   \* to, named by the call that made it
    saltBuf,       \* the bytes of the buffer made by each call
    saltArg,       \* per CreateEvent call: the buffer handed to the running
                   \* io.ReadFull or s.h.Write, 0 when none
    saltFresh,     \* DailySaltTimestamp is less than DailySaltLifetime old
    saltCount,     \* the number of salts drawn so far
    h,             \* s.h: what was written to the hash since its last Reset
    rpc,           \* the position of each CreateEvent call
    reqIn,         \* per CreateEvent call: domain, forwarded IP, user agent
    saltUsed,      \* per CreateEvent call: the salt it wrote to the hash
    hashed         \* per CreateEvent call: the sum it stored as HashedVisit

\* the state of the ingestion server
ingestVars ==
    << DailySalt, saltBuf, saltArg, saltFresh, saltCount, h, rpc, reqIn, saltUsed,
       hashed >>

\* the state of the collector and of its Collect calls
collectorVars ==
    << mutex, pc, sortedEvents, idx, acc, stats, phase, remaining, emitted,
       exited, database, metrics, listRet, err, nowAt, described,
       toDescribe >>

vars == << store, mutex, pc, sortedEvents, idx, acc, stats, phase, remaining,
           emitted, exited, database, metrics, listRet, err, nowAt, described,
           toDescribe, ingestVars >>

\* the nil *AnalyticsStats a call holds until GetAnalyticsStats returns stats
NoStats == [nil |-> TRUE]

\* NewAnalyticsCollector: the key, the name, the variable labels and the
\* constant labels of each descriptor
Desc(name, help, labels) ==
    [name |-> name, help |-> help, labels |-> labels,
     constLabels |-> [domain |-> "web"]]

NewMetrics ==
    [unique_visitors_total |-> Desc("unique_visitors_total", "Total number of unique visitors", <<>>),
     visits_total          |-> Desc("visits_total", "Total number of visitors", <<>>),
     total_page_views      |-> Desc("page_views", "Total number of page views", <<>>),
     current_visitors      |-> Desc("current_visitors", "Current visitors", <<>>),
     bounce_rate           |-> Desc("bounce_rate", "Bounce rate in %", <<>>),
     page_rate             |-> Desc("page_rate", "Rating of page", <<"page">>),
     source_rate           |-> Desc("source_rate", "Rating of source", <<"source">>),
     os_rate               |-> Desc("os_rate", "Rating of OS", <<"os">>),
     browser_rate          |-> Desc("browser_rate", "Rating of browser", <<"browser">>),
     device_rate           |-> Desc("device_rate", "Rating of device", <<"device">>),
     entry_pages_rate      |-> Desc("entry_pages_rate", "Rating of entry pages", <<"page">>),
     exit_pages_rate       |-> Desc("exit_pages_rate", "Rating of exit pages", <<"page">>)]

\* the errors a store may return from List
StoreErrors == {"memdb: transaction failed", "unsupported value type"}

ErrDatabaseNil == "rpc error: code = InvalidArgument desc = database is nil"

ErrExtract == "unable to extract domain and path from the link"

\* the CreateEvent calls
Requests == 1..NumRequests

\* grpcgateway-user-agent headers and what useragent.Parse reads in them
UAFirefox ==
    [header |-> "Mozilla/5.0 (X11; Linux x86_64; rv:109.0) Gecko/20100101 Firefox/115.0",
     Name |-> "Firefox", OS |-> "Linux", Device |-> DeviceDesktop]

UASafari ==
    [header |-> "Mozilla/5.0 (iPhone; CPU iPhone OS 16_0 like Mac OS X) AppleWebKit/605.1.15 (KHTML, like Gecko) Version/16.0 Mobile/15E148 Safari/604.1",
     Name |-> "Safari", OS |-> "iOS", Device |-> DeviceMobile]

\* the fields of a request that CreateEvent reads: Domain, Type, URL and
\* Referrer of the message, x-forwarded-for and grpcgateway-user-agent of
\* the metadata
RequestInputs ==
    { [domain |-> "example.com", type |-> "pageview", url |-> UrlRoot,
       referrer |-> <<>>, ip |-> "10.0.0.1", ua |-> UAFirefox],
      [domain |-> "example.com", type |-> "click", url |-> UrlPage,
       referrer |-> RefNews, ip |-> "10.0.0.1", ua |-> UASafari],
      [domain |-> "", type |-> "pageview", url |-> UrlRoot,
       referrer |-> <<>>, ip |-> "10.0.0.1", ua |-> UAFirefox] }

\* timestamppb.Now() of the requests: they arrive within the same minute
IngestNow == 40

\* the bytes of the k-th salt read from rand.Reader
Salt(k) == "salt" \o ToString(k)

\* the bytes of a salt slice: none for nil, 32 zero bytes for a made buffer
SaltBytes(salt) == IF salt = "nil" THEN "" ELSE salt

\* hex.EncodeToString of the SHA-256 sum of the bytes
Sha256Hex(bytes) == "sha256(" \o bytes \o ")"

\* the requests of a run: all of one visitor, or the first one of another
\* visitor, or the first one without a domain
Workloads ==
    LET same == CHOOSE i \in RequestInputs : i.ua = UAFirefox /\ i.domain # ""
    IN  { [r \in Requests |-> IF r = 1 THEN first ELSE same] : first \in RequestInputs }

\* the ingestion server with no request in it
InitIngest(inputs) ==
    /\ DailySalt = 0
    /\ saltBuf = [r \in Requests |-> ""]
    /\ saltArg = [r \in Requests |-> 0]
    /\ saltFresh = FALSE
    /\ saltCount = 0
    /\ h = ""
    /\ rpc = [r \in Requests |-> "start"]
    /\ reqIn \in inputs
    /\ saltUsed = [r \in Requests |-> "nil"]
    /\ hashed = [r \in Requests |-> ""]

InitCalls ==
    /\ mutex = 0
    /\ metrics = NewMetrics
    /\ listRet = [t \in Scrapes |-> "none"]
    /\ err = [t \in Scrapes |-> "nil"]
    /\ nowAt = [t \in Scrapes |-> 0]
    /\ described = {}
    /\ toDescribe = {}
    /\ pc = [t \in Scrapes |-> "idle"]
    /\ sortedEvents = [t \in Scrapes |-> <<>>]
    /\ idx = [t \in Scrapes |-> 0]
    /\ acc = [t \in Scrapes |-> EmptyAcc]
    /\ stats = [t \in Scrapes |-> NoStats]
    /\ phase = [t \in Scrapes |-> 0]
    /\ remaining = [t \in Scrapes |-> {}]
    /\ emitted = <<>>
    /\ exited = FALSE

\* the exporter after start-up: an empty store, no scrape running
Init ==
    /\ store = <<>>
    /\ database \in {"memdb", "nil"}
    /\ InitCalls
    /\ InitIngest({CHOOSE w \in Workloads : \A r \in Requests : w[r] = w[1]})

\* a store that already holds events when the first scrape arrives
InitStats ==
    /\ store \in StoreLists
    /\ database = "memdb"
    /\ InitCalls
    /\ InitIngest({CHOOSE w \in Workloads : \A r \in Requests : w[r] = w[1]})

(***************************************************************************)
(* Actions                                                                 *)
(***************************************************************************)
\* database Insert: the new event takes any place in the List order
Insert(e) ==
    /\ ~exited
    /\ Len(store) < MaxStore
    /\ \E pos \in 0..Len(store) :
          store' = SubSeq(store, 1, pos) \o <<e>> \o SubSeq(store, pos + 1, Len(store))
    /\ UNCHANGED << mutex, pc, sortedEvents, idx, acc, stats, phase, remaining,
                    emitted, exited >>
    /\ database # "nil"
    /\ UNCHANGED << listRet, err, nowAt, described >>
    /\ UNCHANGED << database, metrics, toDescribe, ingestVars >>

\* variant: the call enters without waiting for the mutex
LockWithoutWaiting(t) ==
    /\ ~exited
    /\ pc[t] = "idle"
    /\ mutex' = t
    /\ pc' = [pc EXCEPT ![t] = "list"]
    /\ UNCHANGED << store, sortedEvents, idx, acc, stats, phase, remaining,
                    emitted, exited >>
    /\ UNCHANGED << listRet, err, nowAt, described >>
    /\ UNCHANGED << database, metrics, toDescribe, ingestVars >>

\* Collect: c.mutex.Lock()
Lock(t) ==
    /\ ~exited
    /\ pc[t] = "idle"
    /\ mutex = 0
    /\ mutex' = t
    /\ pc' = [pc EXCEPT ![t] = "list"]
    /\ UNCHANGED << store, sortedEvents, idx, acc, stats, phase, remaining,
                    emitted, exited >>
    /\ UNCHANGED << listRet, err, nowAt, described >>
    /\ UNCHANGED << database, metrics, toDescribe, ingestVars >>

\* GetAnalyticsStats: db.List succeeds, the locals are made, the slice sorted
List(t) ==
    /\ ~exited
    /\ pc[t] = "list"
    /\ sortedEvents' = [sortedEvents EXCEPT ![t] = SortEvents(store)]
    /\ idx' = [idx EXCEPT ![t] = 1]
    /\ acc' = [acc EXCEPT ![t] = EmptyAcc]
    /\ pc' = [pc EXCEPT ![t] = "fold"]
    /\ UNCHANGED << store, mutex, stats, phase, remaining, emitted, exited >>
    /\ database # "nil"
    /\ listRet' = [listRet EXCEPT ![t] = "ok"]
    /\ UNCHANGED << err, nowAt, described >>
    /\ UNCHANGED << database, metrics, toDescribe, ingestVars >>

\* GetAnalyticsStats: db == nil, the error is returned before any List
NilDatabase(t) ==
    /\ ~exited
    /\ pc[t] = "list"
    /\ database = "nil"
    /\ err' = [err EXCEPT ![t] = ErrDatabaseNil]
    /\ pc' = [pc EXCEPT ![t] = "err"]
    /\ UNCHANGED << store, mutex, sortedEvents, idx, acc, stats, phase,
                    remaining, emitted, exited >>
    /\ UNCHANGED << listRet, nowAt, described >>
    /\ UNCHANGED << database, metrics, toDescribe, ingestVars >>

\* db.List fails and the error comes back wrapped in a status error
ListErrorWrapped(t) ==
    /\ ~exited
    /\ pc[t] = "list"
    /\ pc' = [pc EXCEPT ![t] = "err"]
    /\ UNCHANGED << store, mutex, sortedEvents, idx, acc, stats, phase,
                    remaining, emitted, exited >>
    /\ database # "nil"
    /\ \E e \in StoreErrors :
          /\ listRet' = [listRet EXCEPT ![t] = e]
          /\ err' = [err EXCEPT ![t] = "Internal: list failed"]
    /\ UNCHANGED << nowAt, described >>
    /\ UNCHANGED << database, metrics, toDescribe, ingestVars >>

\* GetAnalyticsStats: db.List returns an error, which is returned
ListError(t) ==
    /\ ~exited
    /\ pc[t] = "list"
    /\ pc' = [pc EXCEPT ![t] = "err"]
    /\ UNCHANGED << store, mutex, sortedEvents, idx, acc, stats, phase,
                    remaining, emitted, exited >>
    /\ database # "nil"
    /\ \E e \in StoreErrors :
          /\ listRet' = [listRet EXCEPT ![t] = e]
          /\ err' = [err EXCEPT ![t] = e]
    /\ UNCHANGED << nowAt, described >>
    /\ UNCHANGED << database, metrics, toDescribe, ingestVars >>

\* GetAnalyticsStats: one iteration of the loop
FoldStep(t) ==
    /\ ~exited
    /\ pc[t] = "fold"
    /\ idx[t] <= Len(sortedEvents[t])
    /\ ~EventFails(sortedEvents[t][idx[t]])
    /\ acc' = [acc EXCEPT ![t] = ProcessEvent(acc[t], sortedEvents[t][idx[t]])]
    /\ idx' = [idx EXCEPT ![t] = @ + 1]
    /\ UNCHANGED << store, mutex, pc, sortedEvents, stats, phase, remaining,
                    emitted, exited >>
    /\ UNCHANGED << listRet, err, nowAt, described >>
    /\ UNCHANGED << database, metrics, toDescribe, ingestVars >>

\* GetAnalyticsStats: the iteration returns the error of extractDomainAndPath
FoldError(t) ==
    /\ ~exited
    /\ pc[t] = "fold"
    /\ idx[t] <= Len(sortedEvents[t])
    /\ EventFails(sortedEvents[t][idx[t]])
    /\ pc' = [pc EXCEPT ![t] = "err"]
    /\ UNCHANGED << store, mutex, sortedEvents, idx, acc, stats, phase,
                    remaining, emitted, exited >>
    /\ err' = [err EXCEPT ![t] = ErrExtract]
    /\ UNCHANGED << listRet, nowAt, described >>
    /\ UNCHANGED << database, metrics, toDescribe, ingestVars >>

\* GetAnalyticsStats: the pass over the visits and the return of the stats;
\* Collect then stands before its first send
Finish(t) ==
    /\ ~exited
    /\ pc[t] = "fold"
    /\ idx[t] > Len(sortedEvents[t])
    /\ \E now \in Nows :
          /\ stats' = [stats EXCEPT ![t] = BuildStats(acc[t], now)]
          /\ nowAt' = [nowAt EXCEPT ![t] = now]
    /\ phase' = [phase EXCEPT ![t] = 1]
    /\ remaining' = [remaining EXCEPT ![t] = {}]
    /\ pc' = [pc EXCEPT ![t] = "emit"]
    /\ UNCHANGED << store, mutex, sortedEvents, idx, acc, emitted, exited >>
    /\ UNCHANGED << listRet, err, described >>
    /\ UNCHANGED << database, metrics, toDescribe, ingestVars >>

\* Collect: the send of one simple metric
EmitSimple(t) ==
    /\ ~exited
    /\ pc[t] = "emit"
    /\ phase[t] <= NumSimple
    /\ emitted' = Append(emitted,
                         Sample(t, phase[t], "", SimpleValue(stats[t], phase[t])))
    /\ LET q == PhaseFrom(stats[t], phase[t] + 1)
       IN  /\ phase' = [phase EXCEPT ![t] = q]
           /\ remaining' = [remaining EXCEPT ![t] = KeysAt(stats[t], q)]
    /\ UNCHANGED << store, mutex, pc, sortedEvents, idx, acc, stats, exited >>
    /\ UNCHANGED << listRet, err, nowAt, described >>
    /\ UNCHANGED << database, metrics, toDescribe, ingestVars >>

\* Collect: the send of one entry of a map; range visits the keys in any order
EmitRate(t) ==
    /\ ~exited
    /\ pc[t] = "emit"
    /\ phase[t] > NumSimple
    /\ phase[t] <= NumMetrics
    /\ \E k \in remaining[t] :
          /\ emitted' = Append(emitted,
                               Sample(t, phase[t], k,
                                      Float(RateMap(stats[t], phase[t])[k])))
          /\ IF remaining[t] = {k}
             THEN LET q == PhaseFrom(stats[t], phase[t] + 1)
                  IN  /\ phase' = [phase EXCEPT ![t] = q]
                      /\ remaining' = [remaining EXCEPT ![t] = KeysAt(stats[t], q)]
             ELSE /\ phase' = phase
                  /\ remaining' = [remaining EXCEPT ![t] = @ \ {k}]
    /\ UNCHANGED << store, mutex, pc, sortedEvents, idx, acc, stats, exited >>
    /\ UNCHANGED << listRet, err, nowAt, described >>
    /\ UNCHANGED << database, metrics, toDescribe, ingestVars >>

\* the samples of the other calls
SelectOthers(samples, t) == SelectSeq(samples, LAMBDA m : m.scrape # t)

\* Collect returns: the deferred c.mutex.Unlock(); the locals of the call
\* are gone and its samples are with the registry
Unlock(t) ==
    /\ ~exited
    /\ pc[t] = "emit"
    /\ phase[t] > NumMetrics
    /\ mutex' = 0
    /\ pc' = [pc EXCEPT ![t] = "done"]
    /\ sortedEvents' = [sortedEvents EXCEPT ![t] = <<>>]
    /\ idx' = [idx EXCEPT ![t] = 0]
    /\ acc' = [acc EXCEPT ![t] = EmptyAcc]
    /\ stats' = [stats EXCEPT ![t] = NoStats]
    /\ phase' = [phase EXCEPT ![t] = 0]
    /\ emitted' = SelectOthers(emitted, t)
    /\ UNCHANGED << store, remaining, exited >>
    /\ listRet' = [listRet EXCEPT ![t] = "none"]
    /\ err' = [err EXCEPT ![t] = "nil"]
    /\ nowAt' = [nowAt EXCEPT ![t] = 0]
    /\ UNCHANGED described
    /\ UNCHANGED << database, metrics, toDescribe, ingestVars >>

\* variant: the error is logged and the call goes on to its sends
FatalLogsAndGoesOn(t) ==
    /\ ~exited
    /\ pc[t] = "err"
    /\ phase' = [phase EXCEPT ![t] = 1]
    /\ remaining' = [remaining EXCEPT ![t] = {}]
    /\ pc' = [pc EXCEPT ![t] = "emit"]
    /\ UNCHANGED << store, mutex, sortedEvents, idx, acc, stats, emitted,
                    exited >>
    /\ UNCHANGED << listRet, err, nowAt, described >>
    /\ UNCHANGED << database, metrics, toDescribe, ingestVars >>

\* Collect: err # nil, c.logger.Fatal ends the process
Fatal(t) ==
    /\ ~exited
    /\ pc[t] = "err"
    /\ exited' = TRUE
    /\ pc' = [pc EXCEPT ![t] = "fatal"]
    /\ UNCHANGED << store, mutex, sortedEvents, idx, acc, stats, phase,
                    remaining, emitted >>
    /\ UNCHANGED << listRet, err, nowAt, described >>
    /\ UNCHANGED << database, metrics, toDescribe, ingestVars >>

\* variant: the range visits only the descriptors without a variable label
DescribeCallSimpleOnly ==
    /\ ~exited
    /\ toDescribe = {}
    /\ described' = {}
    /\ toDescribe' = { k \in DOMAIN metrics : metrics[k].labels = <<>> }
    /\ UNCHANGED << store, mutex, pc, sortedEvents, idx, acc, stats, phase,
                    remaining, emitted, exited >>
    /\ UNCHANGED << listRet, err, nowAt >>
    /\ UNCHANGED << database, metrics, ingestVars >>

\* Describe is called: the range over c.metrics starts
DescribeCall ==
    /\ ~exited
    /\ toDescribe = {}
    /\ described' = {}
    /\ toDescribe' = DOMAIN metrics
    /\ UNCHANGED << store, mutex, pc, sortedEvents, idx, acc, stats, phase,
                    remaining, emitted, exited >>
    /\ UNCHANGED << listRet, err, nowAt >>
    /\ UNCHANGED << database, metrics, ingestVars >>

\* Describe: one iteration of the range, ch <- m; the range visits the keys
\* in any order, and the call returns after the last send
DescribeSend ==
    /\ ~exited
    /\ \E k \in toDescribe :
          /\ described' = described \cup {metrics[k]}
          /\ toDescribe' = toDescribe \ {k}
    /\ UNCHANGED << store, mutex, pc, sortedEvents, idx, acc, stats, phase,
                    remaining, emitted, exited >>
    /\ UNCHANGED << listRet, err, nowAt >>
    /\ UNCHANGED << database, metrics, ingestVars >>

Describe ==
    \/ DescribeCall
    \/ DescribeSend

Collect(t) ==
    \/ Lock(t)
    \/ NilDatabase(t)
    \/ List(t)
    \/ ListError(t)
    \/ FoldStep(t)
    \/ FoldError(t)
    \/ Finish(t)
    \/ EmitSimple(t)
    \/ EmitRate(t)
    \/ Unlock(t)
    \/ Fatal(t)

Next ==
    \/ \E e \in InsertEvents : Insert(e)
    \/ \E t \in Scrapes : Collect(t)

Spec == Init /\ [][Next]_vars

\* the registry: Describe calls at any time, between the steps of the
\* Collect calls of one scraper and the inserts
NextRegistry ==
    \/ \E e \in RegistryEvents :
          /\ \A i \in 1..Len(store) : store[i] # e
          /\ Insert(e)
    \/ Collect(1)
    \/ Describe

SpecRegistry == Init /\ [][NextRegistry]_vars

\* one snapshot of a store holding any list of events
NextStats ==
    \/ Lock(1)
    \/ List(1)
    \/ FoldStep(1)
    \/ FoldError(1)
    \/ Finish(1)

SpecStats == InitStats /\ [][NextStats]_vars

(***************************************************************************)
(* CreateEvent.  gRPC serves every call on a goroutine of its own; the     *)
(* calls share s.h and the package variables DailySalt and                 *)
(* DailySaltTimestamp without a lock, so the statements of different calls *)
(* interleave.                                                             *)
(***************************************************************************)
\* the request has no domain: InvalidArgument, nothing is written
RejectDomain(r) ==
    /\ rpc[r] = "start"
    /\ reqIn[r].domain = ""
    /\ rpc' = [rpc EXCEPT ![r] = "rejected"]
    /\ UNCHANGED << DailySalt, saltBuf, saltArg, saltFresh, saltCount, h, reqIn, saltUsed, hashed >>
    /\ UNCHANGED << store, collectorVars >>

\* DailySalt == nil, the left operand of the test: when true the salt is
\* drawn, when false the age of the salt is tested next
TestSaltNil(r) ==
    /\ rpc[r] = "start"
    /\ reqIn[r].domain # ""
    /\ rpc' = [rpc EXCEPT ![r] = IF DailySalt = 0 THEN "make_salt" ELSE "test_age"]
    /\ UNCHANGED << DailySalt, saltBuf, saltArg, saltFresh, saltCount, h, reqIn, saltUsed, hashed >>
    /\ UNCHANGED << store, collectorVars >>

\* time.Since(DailySaltTimestamp) > DailySaltLifetime, the right operand
TestSaltAge(r) ==
    /\ rpc[r] = "test_age"
    /\ rpc' = [rpc EXCEPT ![r] = IF saltFresh THEN "write_salt" ELSE "make_salt"]
    /\ UNCHANGED << DailySalt, saltBuf, saltArg, saltFresh, saltCount, h, reqIn, saltUsed, hashed >>
    /\ UNCHANGED << store, collectorVars >>

\* DailySalt = make([]byte, DailySaltBytesAmount): a new buffer of zero bytes
MakeSalt(r) ==
    /\ rpc[r] = "make_salt"
    /\ DailySalt' = r
    /\ saltBuf' = [saltBuf EXCEPT ![r] = "zeros"]
    /\ rpc' = [rpc EXCEPT ![r] = "read_salt"]
    /\ UNCHANGED << saltArg, saltFresh, saltCount, h, reqIn, saltUsed, hashed >>
    /\ UNCHANGED << store, collectorVars >>

\* io.ReadFull(rand.Reader, DailySalt) is called with the buffer DailySalt
\* refers to at the call
ReadSalt(r) ==
    /\ rpc[r] = "read_salt"
    /\ saltArg' = [saltArg EXCEPT ![r] = DailySalt]
    /\ rpc' = [rpc EXCEPT ![r] = "fill_salt"]
    /\ UNCHANGED << DailySalt, saltBuf, saltFresh, saltCount, h, reqIn, saltUsed, hashed >>
    /\ UNCHANGED << store, collectorVars >>

\* io.ReadFull fills the buffer it was given and returns
FillSalt(r) ==
    /\ rpc[r] = "fill_salt"
    /\ saltCount < MaxSalts
    /\ saltCount' = saltCount + 1
    /\ saltBuf' = [saltBuf EXCEPT ![saltArg[r]] = Salt(saltCount + 1)]
    /\ saltArg' = [saltArg EXCEPT ![r] = 0]
    /\ rpc' = [rpc EXCEPT ![r] = "stamp_salt"]
    /\ UNCHANGED << DailySalt, saltFresh, h, reqIn, saltUsed, hashed >>
    /\ UNCHANGED << store, collectorVars >>

\* DailySaltTimestamp = time.Now()
StampSalt(r) ==
    /\ rpc[r] = "stamp_salt"
    /\ saltFresh' = TRUE
    /\ rpc' = [rpc EXCEPT ![r] = "write_salt"]
    /\ UNCHANGED << DailySalt, saltBuf, saltArg, saltCount, h, reqIn, saltUsed, hashed >>
    /\ UNCHANGED << store, collectorVars >>

\* s.h.Write(DailySalt) is called with the buffer DailySalt refers to at the
\* call
LoadSalt(r) ==
    /\ rpc[r] = "write_salt"
    /\ saltArg' = [saltArg EXCEPT ![r] = DailySalt]
    /\ rpc' = [rpc EXCEPT ![r] = "hash_salt"]
    /\ UNCHANGED << DailySalt, saltBuf, saltFresh, saltCount, h, reqIn, saltUsed, hashed >>
    /\ UNCHANGED << store, collectorVars >>

\* s.h.Write adds the bytes of the buffer it was given to the hash
WriteSalt(r) ==
    /\ rpc[r] = "hash_salt"
    /\ h' = h \o SaltBytes(saltBuf[saltArg[r]])
    /\ saltUsed' = [saltUsed EXCEPT ![r] = saltBuf[saltArg[r]]]
    /\ saltArg' = [saltArg EXCEPT ![r] = 0]
    /\ rpc' = [rpc EXCEPT ![r] = "write_domain"]
    /\ UNCHANGED << DailySalt, saltBuf, saltFresh, saltCount, reqIn, hashed >>
    /\ UNCHANGED << store, collectorVars >>

\* s.h.Write([]byte(r.GetDomain()))
WriteDomain(r) ==
    /\ rpc[r] = "write_domain"
    /\ h' = h \o reqIn[r].domain
    /\ rpc' = [rpc EXCEPT ![r] = "write_ip"]
    /\ UNCHANGED << DailySalt, saltBuf, saltArg, saltFresh, saltCount, reqIn, saltUsed, hashed >>
    /\ UNCHANGED << store, collectorVars >>

\* s.h.Write([]byte(md["x-forwarded-for"][0]))
WriteIP(r) ==
    /\ rpc[r] = "write_ip"
    /\ h' = h \o reqIn[r].ip
    /\ rpc' = [rpc EXCEPT ![r] = "write_ua"]
    /\ UNCHANGED << DailySalt, saltBuf, saltArg, saltFresh, saltCount, reqIn, saltUsed, hashed >>
    /\ UNCHANGED << store, collectorVars >>

\* s.h.Write([]byte(md["grpcgateway-user-agent"][0]))
WriteUA(r) ==
    /\ rpc[r] = "write_ua"
    /\ h' = h \o reqIn[r].ua.header
    /\ rpc' = [rpc EXCEPT ![r] = "sum"]
    /\ UNCHANGED << DailySalt, saltBuf, saltArg, saltFresh, saltCount, reqIn, saltUsed, hashed >>
    /\ UNCHANGED << store, collectorVars >>

\* visitEncodedHashString: the sum of everything written since the last Reset
Sum(r) ==
    /\ rpc[r] = "sum"
    /\ hashed' = [hashed EXCEPT ![r] = Sha256Hex(h)]
    /\ rpc' = [rpc EXCEPT ![r] = "insert"]
    /\ UNCHANGED << DailySalt, saltBuf, saltArg, saltFresh, saltCount, h, reqIn, saltUsed >>
    /\ UNCHANGED << store, collectorVars >>

\* the event CreateEvent builds from the request and the fingerprint
NewEvent(r) ==
    Event(reqIn[r].type, reqIn[r].url, reqIn[r].referrer,
          [HashedVisit |-> hashed[r],
           Browser |-> reqIn[r].ua.Name,
           OS |-> reqIn[r].ua.OS,
           Device |-> reqIn[r].ua.Device], IngestNow)

\* s.db.Insert(ctx, e): the event takes the place its random id gives it in
\* the List order
InsertEvent(r) ==
    /\ rpc[r] = "insert"
    /\ \E pos \in 0..Len(store) :
          store' = SubSeq(store, 1, pos) \o <<NewEvent(r)>>
                      \o SubSeq(store, pos + 1, Len(store))
    /\ rpc' = [rpc EXCEPT ![r] = "return"]
    /\ UNCHANGED << DailySalt, saltBuf, saltArg, saltFresh, saltCount, h, reqIn, saltUsed, hashed >>
    /\ UNCHANGED collectorVars

\* the return of CreateEvent runs the deferred s.h.Reset()
Reset(r) ==
    /\ rpc[r] = "return"
    /\ h' = ""
    /\ rpc' = [rpc EXCEPT ![r] = "done"]
    /\ UNCHANGED << DailySalt, saltBuf, saltArg, saltFresh, saltCount, reqIn, saltUsed, hashed >>
    /\ UNCHANGED << store, collectorVars >>

\* DailySaltLifetime passes since DailySaltTimestamp
SaltExpires ==
    /\ saltFresh
    /\ saltCount < MaxSalts
    /\ saltFresh' = FALSE
    /\ UNCHANGED << DailySalt, saltBuf, saltArg, saltCount, h, rpc, reqIn,
                    saltUsed, hashed >>
    /\ UNCHANGED << store, collectorVars >>

CreateEvent(r) ==
    \/ RejectDomain(r)
    \/ TestSaltNil(r)
    \/ TestSaltAge(r)
    \/ MakeSalt(r)
    \/ ReadSalt(r)
    \/ FillSalt(r)
    \/ StampSalt(r)
    \/ LoadSalt(r)
    \/ WriteSalt(r)
    \/ WriteDomain(r)
    \/ WriteIP(r)
    \/ WriteUA(r)
    \/ Sum(r)
    \/ InsertEvent(r)
    \/ Reset(r)

\* the ingestion server with an empty store
InitServer ==
    /\ store = <<>>
    /\ database = "memdb"
    /\ InitCalls
    /\ InitIngest(Workloads)

NextIngest ==
    \/ \E r \in Requests : CreateEvent(r)
    \/ SaltExpires

\* concurrent CreateEvent calls on one analyticsServer
SpecIngest == InitServer /\ [][NextIngest]_vars

(***************************************************************************)
(* Properties                                                              *)
(***************************************************************************)
\* the events of the loop that have been folded so far
Processed(t) == SubSeq(sortedEvents[t], 1, idx[t] - 1)

\* GetAnalyticsStats has returned its stats to the call
Returned(t) == pc[t] = "emit"

\* the timestamps of the events of fingerprint fp
TimesOf(events, fp) ==
    { events[i].Timestamp : i \in { j \in 1..Len(events) : events[j].HashedVisit = fp } }

CountOf(events, fp) ==
    Cardinality({ i \in 1..Len(events) : events[i].HashedVisit = fp })

FingerprintsOf(events) == { events[i].HashedVisit : i \in 1..Len(events) }

\* the number of gaps longer than VisitDuration between timestamps of fp that
\* are consecutive in ascending order
LongGaps(events, fp) ==
    LET T == TimesOf(events, fp)
    IN  Cardinality({ x \in T : \E y \in T :
                        /\ y < x
                        /\ x - y > VisitDuration
                        /\ \A z \in T : ~(y < z /\ z < x) })

\* C1: at every point of the fold, a fingerprint has one visit plus one per
\* gap longer than 30 minutes between its consecutive events folded so far
\* (a gap of exactly 30 minutes does not split), and with no such gap its
\* single visit counts all its events.
C1_SessionsSplitOnLongGaps ==
    \A t \in Scrapes :
        pc[t] \in {"fold", "emit"} =>
            LET done == Processed(t)
                vm == acc[t].visitsMap
            IN  /\ DOMAIN vm = FingerprintsOf(done)
                /\ \A fp \in DOMAIN vm :
                      /\ Len(vm[fp]) = 1 + LongGaps(done, fp)
                      /\ LongGaps(done, fp) = 0 =>
                            vm[fp][1].PagesVisited = CountOf(done, fp)

\* a finished fold in which a fingerprint has an event exactly 30 minutes
\* after the previous one, kept in the same visit, and a later split
C1_Witness ==
    \E t \in Scrapes :
        /\ Returned(t)
        /\ \E fp \in DOMAIN acc[t].visitsMap :
              /\ TimesOf(store, fp) = {5, 35, 75}
              /\ Len(acc[t].visitsMap[fp]) = 2
              /\ acc[t].visitsMap[fp][1].PagesVisited = 2
              /\ acc[t].visitsMap[fp][2].PagesVisited = 1

\* the number of visits over all fingerprints
SessionCount(visitsMap) ==
    SumMap([fp \in DOMAIN visitsMap |-> Len(visitsMap[fp])])

\* C5: in every returned snapshot the entry-page counts and the exit-page
\* counts each sum to TotalVisits, the number of visits of all fingerprints.
C5_EntryExitSumToVisits ==
    \A t \in Scrapes :
        Returned(t) =>
            /\ SumMap(stats[t].EntryPagesRate) = stats[t].TotalVisits
            /\ SumMap(stats[t].ExitPagesRate) = stats[t].TotalVisits
            /\ stats[t].TotalVisits = SessionCount(acc[t].visitsMap)

\* a snapshot with three visits, two of which share their entry page
C5_Witness ==
    \E t \in Scrapes :
        /\ Returned(t)
        /\ stats[t].TotalVisits = 3
        /\ \E k \in DOMAIN stats[t].EntryPagesRate : stats[t].EntryPagesRate[k] = 2
        /\ Cardinality(DOMAIN stats[t].ExitPagesRate) = 2

\* C6: UniqueVisitors is the number of distinct fingerprints among the
\* stored events, whatever the order in which List returns them.
C6_UniqueVisitorsAreFingerprints ==
    \A t \in Scrapes :
        Returned(t) =>
            stats[t].UniqueVisitors = Cardinality(FingerprintsOf(store))

\* a snapshot of two fingerprints, one of them with two visits, taken from a
\* list that is not in timestamp order
C6_Witness ==
    \E t \in Scrapes :
        /\ Returned(t)
        /\ stats[t].UniqueVisitors = 2
        /\ stats[t].TotalVisits = 3
        /\ \E i \in 1..(Len(store) - 1) : store[i].Timestamp > store[i + 1].Timestamp

\* the list holds at least one event of category "pageview"
HasPageView(events) == \E i \in 1..Len(events) : events[i].Type = "pageview"

\* C2: with at least one "pageview" event in the list, BounceRate is finite
\* and lies in [0,1]: the one-page visits never exceed TotalPageViews.
C2_BounceRateInUnitInterval ==
    \A t \in Scrapes :
        (Returned(t) /\ HasPageView(sortedEvents[t])) =>
            /\ IsFinite(stats[t].BounceRate)
            /\ InUnitInterval(stats[t].BounceRate)
            /\ stats[t].BounceRate.num <= stats[t].TotalPageViews

\* C3: no sample of bounce_rate carries a non-finite value; with zero page
\* views the sample is left out.
C3_NoNonFiniteBounceSample ==
    \A i \in 1..Len(emitted) :
        emitted[i].metric = "bounce_rate" => IsFinite(emitted[i].value)

\* C4: in every returned snapshot the page, device, OS and browser counts
\* each sum to TotalPageViews.
C4_PerPageViewMapsSumToPageViews ==
    \A t \in Scrapes :
        Returned(t) =>
            /\ SumMap(stats[t].PagesRate) = stats[t].TotalPageViews
            /\ SumMap(stats[t].DevicesRate) = stats[t].TotalPageViews
            /\ SumMap(stats[t].OSsRate) = stats[t].TotalPageViews
            /\ SumMap(stats[t].BrowsersRate) = stats[t].TotalPageViews

\* the host of a link, as the aggregation reads it
HostOf(link) == Join(extractDomainAndPath(link).domain)

\* map after differs from map before by one increment of one key
OneBucketMore(before, after) ==
    \E k \in DOMAIN after :
        /\ after[k] = Get(before, k) + 1
        /\ DOMAIN after = DOMAIN before \cup {k}
        /\ \A j \in DOMAIN after \ {k} : after[j] = before[j]

\* C7: folding an event with an empty referrer adds one to "Direct/None" and
\* leaves every other source alone; a referrer with the host of the event's
\* own URL changes no source; a referrer with another host adds one to
\* exactly one source.
C7_SourceBuckets ==
    [][ \A t \in Scrapes :
          (pc[t] = "fold" /\ idx'[t] = idx[t] + 1) =>
              LET e == sortedEvents[t][idx[t]]
                  before == acc[t].sources
                  after == acc'[t].sources
              IN  IF e.Referrer = <<>>
                  THEN /\ "Direct/None" \in DOMAIN after
                       /\ after["Direct/None"] = Get(before, "Direct/None") + 1
                       /\ DOMAIN after = DOMAIN before \cup {"Direct/None"}
                       /\ \A j \in DOMAIN before \ {"Direct/None"} :
                             after[j] = before[j]
                  ELSE IF HostOf(e.Referrer) = HostOf(e.URL)
                  THEN after = before
                  ELSE OneBucketMore(before, after) ]_vars

\* a finished fold over a direct hit, a hit from the site itself and a hit
\* from another site
C7_Witness ==
    \E t \in Scrapes :
        /\ Returned(t)
        /\ Len(sortedEvents[t]) = 3
        /\ \E i \in 1..3 : sortedEvents[t][i].Referrer = <<>>
        /\ \E i \in 1..3 : sortedEvents[t][i].Referrer = RefSame
        /\ \E i \in 1..3 : sortedEvents[t][i].Referrer = RefNews
        /\ stats[t].SourcesRate = ("Direct/None" :> 1) @@ ("ycombinator.com" :> 1)

\* a link with no character other than "/": it has no host
NoHost(link) == \A i \in 1..Len(link) : link[i] = "/"

Malformed(e) == NoHost(e.URL) \/ (e.Referrer # <<>> /\ NoHost(e.Referrer))

\* C10: when any event of the list has a URL, or a non-empty referrer,
\* without a host, no stats are returned: the fold never steps over such an
\* event and ends in the error.
C10_MalformedUrlAborts ==
    \A t \in Scrapes :
        /\ \A i \in 1..Len(Processed(t)) : ~Malformed(Processed(t)[i])
        /\ (\E i \in 1..Len(sortedEvents[t]) : Malformed(sortedEvents[t][i])) =>
              ~Returned(t)
        /\ (pc[t] = "fold" /\ idx[t] <= Len(sortedEvents[t])
              /\ Malformed(sortedEvents[t][idx[t]])) =>
              (ENABLED FoldError(t) /\ ~ENABLED FoldStep(t))

\* a fold that ended in the error at its last event, a hit with a referrer
\* without host, after two events were folded
C10_Witness ==
    \E t \in Scrapes :
        /\ pc[t] = "err"
        /\ idx[t] = 3
        /\ Len(sortedEvents[t]) = 3
        /\ sortedEvents[t][3].Referrer = UrlSlash
        /\ ~NoHost(sortedEvents[t][3].URL)

\* the calls between c.mutex.Lock() and the return of Collect
InsideCollect == { t \in Scrapes : pc[t] \in {"list", "fold", "emit", "err", "fatal"} }

NoSamplesOf(t) == \A i \in 1..Len(emitted) : emitted[i].scrape # t

\* C8: at most one Collect call of the collector is between Lock and Unlock;
\* it holds the mutex, every other call has no retrieved events, no
\* aggregation state and no stats, and all samples in flight are its own.
C8_ScrapesSerialized ==
    /\ Cardinality(InsideCollect) <= 1
    /\ \A t \in InsideCollect : mutex = t
    /\ \A t \in Scrapes \ InsideCollect :
          /\ sortedEvents[t] = <<>>
          /\ acc[t] = EmptyAcc
          /\ stats[t] = NoStats
          /\ NoSamplesOf(t)

\* a call in the middle of its sends, after another call has returned and
\* while the store has grown since the snapshot of the call
C8_Witness ==
    \E t, u \in Scrapes :
        /\ pc[t] = "emit"
        /\ phase[t] > NumSimple
        /\ Len(emitted) > NumSimple
        /\ pc[u] = "done"
        /\ Len(store) > Len(sortedEvents[t])

\* C9: a Collect call whose GetAnalyticsStats returned an error has sent no
\* sample, and from there it only ends the scrape: it never goes on to send.
C9_ErrorEmitsNothing ==
    /\ [](\A t \in Scrapes : pc[t] \in {"err", "fatal"} => NoSamplesOf(t))
    /\ [][ \A t \in Scrapes :
             pc[t] = "err" => (pc'[t] \in {"err", "fatal"} /\ emitted' = emitted) ]_vars

\* the process has ended in a failed scrape, after an earlier scrape of the
\* same collector had succeeded
C9_Witness ==
    \E t, u \in Scrapes :
        /\ pc[t] = "fatal"
        /\ exited
        /\ pc[u] = "done"
        /\ NoSamplesOf(t)

\* GetAnalyticsStats has returned an error to the call
Errored(t) == pc[t] \in {"err", "fatal"}

\* the seven categorical maps of AnalyticsStats
RateFields ==
    {"PagesRate", "SourcesRate", "OSsRate", "BrowsersRate", "DevicesRate",
     "EntryPagesRate", "ExitPagesRate"}

\* C11: GetAnalyticsStats on a nil store returns the database-is-nil error
\* and nil stats and never calls List; an error of List is returned as it is,
\* with nil stats; a call over a list whose links all have a host returns no
\* error and non-nil stats with all seven maps present; over an empty list
\* all four counts are zero and all seven maps are empty.
C11_GetAnalyticsStatsResult ==
    \A t \in Scrapes :
        /\ Errored(t) => (stats[t] = NoStats /\ err[t] # "nil")
        /\ database = "nil" =>
              /\ listRet[t] = "none"
              /\ ~Returned(t) /\ pc[t] # "fold"
              /\ Errored(t) => err[t] = ErrDatabaseNil
        /\ listRet[t] \in StoreErrors => (Errored(t) /\ err[t] = listRet[t])
        /\ (Errored(t) /\ listRet[t] = "ok") =>
              \E i \in 1..Len(sortedEvents[t]) : Malformed(sortedEvents[t][i])
        /\ Returned(t) =>
              /\ err[t] = "nil"
              /\ stats[t] # NoStats
              /\ RateFields \subseteq DOMAIN stats[t]
              /\ sortedEvents[t] = <<>> =>
                    /\ stats[t].UniqueVisitors = 0
                    /\ stats[t].TotalVisits = 0
                    /\ stats[t].TotalPageViews = 0
                    /\ stats[t].CurrentVisitors = 0
                    /\ \A f \in RateFields : DOMAIN stats[t][f] = {}

\* a call to which GetAnalyticsStats has returned the error of List
C11_Witness ==
    \E t \in Scrapes :
        /\ pc[t] = "err"
        /\ listRet[t] \in StoreErrors
        /\ err[t] = listRet[t]
        /\ stats[t] = NoStats

\* C12: for the three page views of F1 at t0, t0+5m and t0+40m on /, /foo
\* and /bar, in whichever order List returns them, the snapshot has two
\* visits of F1, UniqueVisitors 1, TotalVisits 2, TotalPageViews 3, entry
\* pages / and /bar once each and exit pages /foo and /bar once each.
C12_ScenarioThreePageViews ==
    \A t \in Scrapes :
        (Returned(t) /\ store \in ScenarioLists) =>
            /\ DOMAIN acc[t].visitsMap = {"F1"}
            /\ Len(acc[t].visitsMap["F1"]) = 2
            /\ stats[t].UniqueVisitors = 1
            /\ stats[t].TotalVisits = 2
            /\ stats[t].TotalPageViews = 3
            /\ stats[t].EntryPagesRate = ("/" :> 1) @@ ("/bar" :> 1)
            /\ stats[t].ExitPagesRate = ("/foo" :> 1) @@ ("/bar" :> 1)

\* the snapshot of the scenario when List returned the latest event first
C12_Witness ==
    \E t \in Scrapes :
        /\ Returned(t)
        /\ store \in ScenarioLists
        /\ store[1].Timestamp = 75
        /\ store[3].Timestamp = 35
        /\ stats[t].TotalVisits = 2

\* the samples sent so far by call t
SamplesOf(t) == SelectSeq(emitted, LAMBDA m : m.scrape = t)

\* Collect has sent its last sample and has not returned yet
AllSent(t) == pc[t] = "emit" /\ phase[t] = NumMetrics + 1

\* the metric that reports each categorical map
RateMetric ==
    [PagesRate |-> "page_rate", SourcesRate |-> "source_rate",
     OSsRate |-> "os_rate", BrowsersRate |-> "browser_rate",
     DevicesRate |-> "device_rate", EntryPagesRate |-> "entry_pages_rate",
     ExitPagesRate |-> "exit_pages_rate"]

\* metric, label value and value of the samples a snapshot calls for
WantedSamples(st) ==
    { [metric |-> "unique_visitors_total", label |-> "", value |-> Float(st.UniqueVisitors)],
      [metric |-> "visits_total", label |-> "", value |-> Float(st.TotalVisits)],
      [metric |-> "total_page_views", label |-> "", value |-> Float(st.TotalPageViews)],
      [metric |-> "current_visitors", label |-> "", value |-> Float(st.CurrentVisitors)],
      [metric |-> "bounce_rate", label |-> "", value |-> st.BounceRate] }
    \cup UNION { { [metric |-> RateMetric[f], label |-> k, value |-> Float(st[f][k])] :
                     k \in DOMAIN st[f] } : f \in RateFields }

\* metric, label value and value of the samples of a sequence
SentSamples(samples) ==
    { [metric |-> samples[i].metric, label |-> samples[i].label,
       value |-> samples[i].value] : i \in 1..Len(samples) }

\* C13: a Collect that got stats sends only samples the snapshot calls for,
\* none of them twice; when it has sent its last sample it has sent one
\* sample for each of the five simple metrics and one per entry of each of
\* the seven maps, labelled with the key and valued with the count, 5 plus
\* the sum of the map sizes in all.
C13_OneSamplePerMetricAndEntry ==
    \A t \in Scrapes :
        Returned(t) =>
            LET mine == SamplesOf(t)
                sent == SentSamples(mine)
                wanted == WantedSamples(stats[t])
            IN  /\ sent \subseteq wanted
                /\ Cardinality({ <<mine[i].metric, mine[i].label>> :
                                   i \in 1..Len(mine) }) = Len(mine)
                /\ AllSent(t) =>
                      /\ sent = wanted
                      /\ Len(mine) =
                            5 + SumMap([f \in RateFields |->
                                         Cardinality(DOMAIN stats[t][f])])

\* a Collect that has sent every sample of a snapshot with two pages and
\* two devices
C13_Witness ==
    \E t \in Scrapes :
        /\ AllSent(t)
        /\ Cardinality(DOMAIN stats[t].PagesRate) = 2
        /\ Cardinality(DOMAIN stats[t].DevicesRate) = 2
        /\ Len(SamplesOf(t)) >= 5 + 8

\* the descriptors built by NewAnalyticsCollector
Descriptors == { NewMetrics[k] : k \in DOMAIN NewMetrics }

\* C14: whatever Collect calls and inserts have happened or are under way,
\* a Describe call sends descriptors the collector was built with, none of
\* them twice, and has sent all twelve when it returns; every sample a
\* Collect sends is made with one of these twelve.
C14_DescribeFixedTwelve ==
    /\ Cardinality(Descriptors) = 12
    /\ metrics = NewMetrics
    /\ described \subseteq Descriptors
    /\ toDescribe # {} =>
          /\ described \cup { metrics[k] : k \in toDescribe } = Descriptors
          /\ Cardinality(described) + Cardinality(toDescribe) = 12
    /\ (toDescribe = {} /\ described # {}) => described = Descriptors
    /\ \A i \in 1..Len(emitted) :
          /\ emitted[i].metric \in DOMAIN metrics
          /\ metrics[emitted[i].metric] \in Descriptors

\* a Describe call that has returned, after an insert and while a Collect
\* has sent its samples and not yet returned
C14_Witness ==
    /\ described = Descriptors
    /\ toDescribe = {}
    /\ store # <<>>
    /\ \E t \in Scrapes : AllSent(t) /\ Len(SamplesOf(t)) > 5

\* what one step of the loop may do to the visits of a fingerprint: the
\* visits before the last stay as they are, and the last keeps its entry
\* page and does not go back in time
OnlyLastVisitTouched(old, new) ==
    /\ Len(new) >= Len(old)
    /\ \A i \in 1..(Len(old) - 1) : new[i] = old[i]
    /\ new[Len(old)].EntryPage = old[Len(old)].EntryPage
    /\ new[Len(old)].LastPageViewTimestamp >= old[Len(old)].LastPageViewTimestamp
    /\ Len(new) > Len(old) => new[Len(old)] = old[Len(old)]

\* C15: a step of the fold changes, of the visits a fingerprint already
\* has, at most the most recent one; earlier visits stay unchanged, the
\* EntryPage of a visit never changes and its LastPageViewTimestamp never
\* decreases.
C15_OnlyLastVisitModified ==
    [][ \A t \in Scrapes :
          (pc[t] = "fold" /\ pc'[t] \in {"fold", "emit"}) =>
              \A fp \in DOMAIN acc[t].visitsMap :
                  /\ fp \in DOMAIN acc'[t].visitsMap
                  /\ OnlyLastVisitTouched(acc[t].visitsMap[fp], acc'[t].visitsMap[fp]) ]_vars

\* a fold in which the second visit of a fingerprint has been extended to
\* another page while its first visit exists
C15_Witness ==
    \E t \in Scrapes :
        /\ pc[t] \in {"fold", "emit"}
        /\ \E fp \in DOMAIN acc[t].visitsMap :
              /\ Len(acc[t].visitsMap[fp]) = 2
              /\ acc[t].visitsMap[fp][2].PagesVisited = 2
              /\ acc[t].visitsMap[fp][2].EntryPage # acc[t].visitsMap[fp][2].ExitPage

\* the visits whose last page view lies less than five minutes before or
\* after the given time
VisitsNear(visitsMap, now) ==
    { r \in VisitRefs(visitsMap) :
        LET last == VisitAt(visitsMap, r).LastPageViewTimestamp
        IN  now - 5 < last /\ last < now + 5 }

\* C16: CurrentVisitors is the number of visits whose LastPageViewTimestamp
\* differs from the time of the snapshot by strictly less than five
\* minutes, in the past or in the future; a visit whose last page view is
\* exactly five minutes away is not counted.
C16_CurrentVisitorsWindow ==
    \A t \in Scrapes :
        Returned(t) =>
            stats[t].CurrentVisitors =
                Cardinality(VisitsNear(acc[t].visitsMap, nowAt[t]))

\* a snapshot with one visit that ended exactly five minutes ago, not
\* counted, and one that ended now, counted
C16_Witness ==
    \E t \in Scrapes :
        /\ Returned(t)
        /\ nowAt[t] = 40
        /\ \E r \in VisitRefs(acc[t].visitsMap) :
              VisitAt(acc[t].visitsMap, r).LastPageViewTimestamp = 35
        /\ \E r \in VisitRefs(acc[t].visitsMap) :
              VisitAt(acc[t].visitsMap, r).LastPageViewTimestamp = 40
        /\ stats[t].CurrentVisitors = 1

\* C17: in every snapshot CurrentVisitors <= UniqueVisitors <= TotalVisits.
C17_CurrentUniqueTotalOrdered ==
    \A t \in Scrapes :
        Returned(t) =>
            /\ stats[t].CurrentVisitors <= stats[t].UniqueVisitors
            /\ stats[t].UniqueVisitors <= stats[t].TotalVisits

\* a snapshot of two fingerprints, one of them with two visits, one of
\* which is current
C17_Witness ==
    \E t \in Scrapes :
        /\ Returned(t)
        /\ stats[t].CurrentVisitors = 1
        /\ stats[t].UniqueVisitors = 2
        /\ stats[t].TotalVisits = 3
        /\ \E fp \in DOMAIN acc[t].visitsMap :
              /\ Len(acc[t].visitsMap[fp]) = 2
              /\ Abs(nowAt[t] - acc[t].visitsMap[fp][1].LastPageViewTimestamp) < VisitDuration

\* the orders in which List may return the events of a list
Reorderings(events) ==
    LET n == Len(events)
        perms == { q \in [1..n -> 1..n] : \A i, j \in 1..n : q[i] = q[j] => i = j }
    IN  { [i \in 1..n |-> events[q[i]]] : q \in perms }

\* C18: the stats returned to a call are the stats GetAnalyticsStats returns
\* at the same time for every other order in which List may return the
\* events of the store, events of one fingerprint with equal timestamps
\* included.
C18_SnapshotIndependentOfListOrder ==
    \A t \in Scrapes :
        Returned(t) =>
            \A l \in Reorderings(store) :
                GetAnalyticsStats(l, nowAt[t]) = stats[t]

\* the call has computed the fingerprint it stores with its event
Hashed(r) == rpc[r] \in {"insert", "return", "done"}

\* C19: whatever the interleaving of CreateEvent calls, the HashedVisit of a
\* call is the hash of the salt it read followed by its own domain,
\* forwarded IP and user agent, and of nothing else; no call reads a salt
\* buffer that another call has allocated and not yet filled; two calls with
\* the same inputs that read the same salt store the same HashedVisit.
C19_FingerprintOfOwnInputs ==
    /\ \A r \in Requests :
          Hashed(r) =>
              /\ hashed[r] = Sha256Hex(SaltBytes(saltUsed[r]) \o reqIn[r].domain
                                       \o reqIn[r].ip \o reqIn[r].ua.header)
              /\ saltUsed[r] # "zeros"
    /\ \A r, q \in Requests :
          (Hashed(r) /\ Hashed(q) /\ reqIn[r] = reqIn[q]
             /\ saltUsed[r] = saltUsed[q]) => hashed[r] = hashed[q]

====
